---- MODULE Spec2Model ----
(***************************************************************************)
(* Model of maietta/scanner-controller, utilities package:                 *)
(*   - scanner_utils_uniden.py : serial transport helpers and the scanner  *)
(*     discovery loop find_scanner_port;                                   *)
(*   - readlineSetup.py        : the tab-completion callback completer.    *)
(*                                                                         *)
(* Bytes and characters are one-element strings; a byte string or a text   *)
(* is a sequence of them.  "FF" stands for a byte that is never valid      *)
(* UTF-8, "C3" "A9" for the two-byte encoding of one non-ASCII character,  *)
(* written "e_acute" once decoded.  Times are in tenths of a second.       *)
(***************************************************************************)
EXTENDS Integers, Sequences, FiniteSets, TLC

VARIABLES
    \* ---- find_scanner_port ----
    pc,           \* position in find_scanner_port
    max_retries,  \* parameter max_retries
    timeout,      \* parameter timeout (per-probe timeout given to serial.Serial)
    retries,      \* local retries
    detected,     \* local detected: sequence of <<device, model, dialect>>
    ports,        \* local ports: the list returned by list_ports.comports()
    idx,          \* number of ports of the current pass the for loop has taken
    result,       \* the returned list, once pc = "done"
    \* ---- the serial connection (serial.Serial object and its device) ----
    open,         \* set of endpoints whose Connection is currently open
    ser_timeout,  \* ser.timeout of the current connection
    inbuf,        \* bytes received and not yet read
    pending,      \* bytes the device sends after the current read window
    sent,         \* bytes written to the current connection, in order
    dev,          \* behaviour of the device behind the current endpoint
    \* ---- observation of the run ----
    passes,       \* number of completed passes over the endpoints
    sleeps,       \* number of completed time.sleep(3) waits
    visited,      \* endpoints the for loop has taken in the current pass
    errored,      \* endpoints of the current pass whose probe raised
    classified,   \* the ProbeResults recorded in the current pass, in order
    lastRead,     \* outcome of the latest read_response call of the current probe
    fault,        \* what raised in the current probe: none, open, io or decode
    \* ---- readline completer ----
    COMMANDS,     \* the registry passed to initialize_readline
    buffer,       \* readline.get_line_buffer()
    comp_state,   \* the state argument of the latest completer call
    comp_matches, \* the matches list built by the latest completer call
    comp_result,  \* the value returned by the latest completer call
    \* ---- wait_for_data ----
    w_pc,         \* position in wait_for_data
    max_wait,     \* parameter max_wait, in poll intervals
    w_elapsed,    \* time.time() - start, in poll intervals
    w_result,     \* the returned value, once w_pc = "done"
    w_polls,      \* number of times ser.in_waiting was read
    w_first_avail \* the first poll that had a byte to see, 0 when none had

discVars == <<pc, max_retries, timeout, retries, detected, ports, idx, result,
              passes, sleeps, visited, errored, classified>>
connVars == <<open, ser_timeout, inbuf, pending, sent, dev, lastRead, fault>>
compVars == <<COMMANDS, buffer, comp_state, comp_matches, comp_result>>
waitVars == <<w_pc, max_wait, w_elapsed, w_result, w_polls, w_first_avail>>
vars == <<discVars, connVars, compVars, waitVars>>

----------------------------------------------------------------------------
\* Bounds of the model

MaxPorts == 2      \* comports() returns at most this many endpoints
MaxRetries == 2    \* max_retries ranges over 0..MaxRetries

\* Program constants, in tenths of a second
ProbeTimeout == 5          \* find_scanner_port(timeout=0.5)
ReadDefaultTimeout == 10   \* read_response(ser, timeout=1.0)

----------------------------------------------------------------------------
\* Bytes, text and the conversions between them

CR == "\r"
LF == "\n"

Upper == {"M", "D", "L", "B", "A", "R", "V", "W", "I", "X"}
Lower == {"x"}
Digit == {"1"}
Ascii == Upper \cup Lower \cup Digit \cup {",", "-", " ", CR, LF}

\* The characters Python's str.strip() removes, among those of the model
IsWhitespace(c) == c \in {" ", CR, LF}

RECURSIVE lstrip(_)
lstrip(s) ==
    IF s = <<>> THEN s
    ELSE IF IsWhitespace(Head(s)) THEN lstrip(Tail(s)) ELSE s

RECURSIVE rstrip(_)
rstrip(s) ==
    IF s = <<>> THEN s
    ELSE IF IsWhitespace(s[Len(s)]) THEN rstrip(SubSeq(s, 1, Len(s) - 1)) ELSE s

strip(s) == rstrip(lstrip(s))

\* bytes.decode("utf-8"): the text, or a UnicodeDecodeError (ok = FALSE)
RECURSIVE utf8_decode(_)
utf8_decode(b) ==
    IF b = <<>> THEN [ok |-> TRUE, text |-> <<>>]
    ELSE IF Head(b) \in Ascii
         THEN LET r == utf8_decode(Tail(b))
              IN  [ok |-> r.ok, text |-> IF r.ok THEN <<Head(b)>> \o r.text ELSE <<>>]
    ELSE IF Head(b) = "C3" /\ Len(b) >= 2 /\ b[2] = "A9"
         THEN LET r == utf8_decode(SubSeq(b, 3, Len(b)))
              IN  [ok |-> r.ok, text |-> IF r.ok THEN <<"e_acute">> \o r.text ELSE <<>>]
    ELSE [ok |-> FALSE, text |-> <<>>]

\* Index of the first CR of buf, 0 when there is none
FirstCR(buf) ==
    IF \E i \in 1..Len(buf) : buf[i] = CR
    THEN CHOOSE i \in 1..Len(buf) : buf[i] = CR /\ \A j \in 1..(i - 1) : buf[j] # CR
    ELSE 0

\* ser.read_until(b"\r") on the bytes that arrive within the read window:
\* everything up to and including the first CR, or, when the window ends
\* without one, every byte that arrived.
read_until(buf) ==
    LET i == FirstCR(buf)
    IN  IF i > 0
        THEN [data |-> SubSeq(buf, 1, i), rest |-> SubSeq(buf, i + 1, Len(buf)),
              terminated |-> TRUE]
        ELSE [data |-> buf, rest |-> <<>>, terminated |-> FALSE]

\* read_response(ser, timeout): sets ser.timeout, then
\* ser.read_until(b"\r").decode("utf-8").strip()
read_response(buf, t) ==
    LET r == read_until(buf)
        d == utf8_decode(r.data)
    IN  [timeout    |-> t,
         raw        |-> r.data,
         rest       |-> r.rest,
         terminated |-> r.terminated,
         raised     |-> ~d.ok,
         response   |-> IF d.ok THEN strip(d.text) ELSE <<>>]

\* mdl_pattern = re.compile(r"^MDL,([A-Za-z0-9,]+)$"), used with .match():
\* matched, and group(1).  "$" also matches before one final line feed.
IsPayloadChar(c) == c \in Upper \cup Lower \cup Digit \cup {","}

mdl_pattern_match(s) ==
    LET rest == SubSeq(s, 5, Len(s))
        body == IF rest # <<>> /\ rest[Len(rest)] = LF
                THEN SubSeq(rest, 1, Len(rest) - 1) ELSE rest
        ok   == /\ Len(s) >= 5
                /\ SubSeq(s, 1, 4) = <<"M", "D", "L", ",">>
                /\ body # <<>>
                /\ \A i \in 1..Len(body) : IsPayloadChar(body[i])
    IN  [matched |-> ok, group1 |-> IF ok THEN body ELSE <<>>]

MDL_CMD == <<"M", "D", "L", CR>>
WI_CMD == <<"W", "I", CR>>
AR_DV1 == <<"A", "R", "-", "D", "V", "1">>

----------------------------------------------------------------------------
\* The devices behind the endpoints.  A device is what it sends back after
\* the MDL probe and after the WI probe; late = its MDL reply arrives only
\* after the read that follows the MDL write has timed out.

MdlReplies ==
    { <<>>,                                          \* silent
      <<"M", "D", "L", ",", "B", "1", CR>>,          \* a Uniden model reply
      <<"M", "D", "L", ",", "B", ",", "1", CR>>,     \* payload holding a comma
      <<LF, "M", "D", "L", ",", "B", "1", CR>>,      \* preceded by a line feed
      <<"M", "D", "L", ",", "B">>,                   \* cut off before the CR
      <<"M", "D", "L", ",", CR>>,                    \* empty payload
      <<"M", "D", "L", ",", "B", "-", CR>>,          \* character outside the class
      <<"x", CR>>,                                   \* some other text
      <<"x", CR, "x", CR>>,                          \* two lines of other text
      <<"C3", "A9", CR>>,                            \* non-ASCII text
      <<"FF", CR>> }                                 \* not valid UTF-8

WiReplies ==
    { <<>>,
      <<"A", "R", "-", "D", "V", "1", CR>>,
      <<" ", "A", "R", "-", "D", "V", "1", " ", CR>>,
      <<"A", "R", "-", "D", "V", "1", "X", CR>>,
      <<"FF", CR>> }

\* The replies taken for the devices that answer MDL late
LateMdlReplies ==
    { <<"M", "D", "L", ",", "B", "1", CR>>,
      <<"x", CR>> }

LateWiReplies ==
    { <<>>,
      <<"A", "R", "-", "D", "V", "1", CR>> }

Devices ==
    [mdl : MdlReplies, wi : WiReplies, late : {FALSE}]
    \cup [mdl : LateMdlReplies, wi : LateWiReplies, late : {TRUE}]

NoDevice == [mdl |-> <<>>, wi |-> <<>>, late |-> FALSE]
NoRead == [probe |-> "none", timeout |-> 0, raw |-> <<>>, rest |-> <<>>,
           terminated |-> FALSE, raised |-> FALSE, response |-> <<>>]

\* The endpoint the for loop is at (port.device)
CurPort == ports[idx]

\* list_ports.comports(): the endpoints 1..n, enumerated again on every pass
comports == { [i \in 1..n |-> i] : n \in 0..MaxPorts }

----------------------------------------------------------------------------
\* find_scanner_port

\* Leaving the "with serial.Serial(...) as ser" block closes the connection
CloseConn_leak(ep) == open
CloseConn(ep) == open \ {ep}

\* "except Exception as e: logger.warning(...); continue": the for loop goes
\* on from the index i it had reached
ExceptContinue_break(i) == Len(ports)
ExceptContinue(i) == i

\* "if mdl_pattern.match(response): ... continue", else on to the WI probe
AfterMdl_fallthrough(matched) == "wi_write"
AfterMdl(matched) == IF matched THEN "for" ELSE "wi_write"

\* line 116: if response.strip() == "AR-DV1"
IsAorReply_prefix(response) ==
    LET t == strip(response)
    IN  Len(t) >= Len(AR_DV1) /\ SubSeq(t, 1, Len(AR_DV1)) = AR_DV1
IsAorReply(response) == strip(response) = AR_DV1

\* line 117: detected.append((port.device, "AR-DV1", "aordv1"))
AorEntry_unknown(ep) == <<ep, AR_DV1, "unknown">>
AorEntry(ep) == <<ep, AR_DV1, "aordv1">>

\* "if detected: return detected"
FoundAfterPass_never(d) == FALSE
FoundAfterPass(d) == d # <<>>

\* "while retries < max_retries"
WhileCond == retries < max_retries

\* line 126: retries += 1
RetryIncrement_none(r) == r
RetryIncrement(r) == r + 1

InitDisc ==
    /\ pc = "while"
    /\ max_retries \in 0..MaxRetries
    /\ timeout = ProbeTimeout
    /\ retries = 0
    /\ detected = <<>>
    /\ ports = <<>>
    /\ idx = 0
    /\ result = <<>>
    /\ passes = 0
    /\ sleeps = 0
    /\ visited = <<>>
    /\ errored = {}
    /\ classified = <<>>

InitConn ==
    /\ open = {}
    /\ ser_timeout = 0
    /\ inbuf = <<>>
    /\ pending = <<>>
    /\ sent = <<>>
    /\ dev = NoDevice
    /\ lastRead = NoRead
    /\ fault = "none"

\* After the for loop the last ser object is out of scope: nothing of it, nor
\* of what was observed of it, is kept
ForgetProbe ==
    /\ ser_timeout' = 0
    /\ inbuf' = <<>>
    /\ pending' = <<>>
    /\ sent' = <<>>
    /\ dev' = NoDevice
    /\ lastRead' = NoRead
    /\ fault' = "none"
    /\ UNCHANGED open

\* line 94-95: the loop condition holds, the ports are enumerated
StartPass ==
    /\ pc = "while"
    /\ WhileCond
    /\ ports' \in comports
    /\ idx' = 0
    /\ visited' = <<>>
    /\ errored' = {}
    /\ classified' = <<>>
    /\ pc' = "for"
    /\ UNCHANGED <<max_retries, timeout, retries, detected, result, passes, sleeps>>
    /\ UNCHANGED <<connVars, compVars, waitVars>>

\* line 94, 129-130: the loop condition fails, detected is returned
Exhausted ==
    /\ pc = "while"
    /\ ~WhileCond
    /\ result' = detected
    /\ pc' = "done"
    /\ UNCHANGED <<max_retries, timeout, retries, detected, ports, idx, passes,
                   sleeps, visited, errored, classified>>
    /\ UNCHANGED <<connVars, compVars, waitVars>>

\* line 96-100: the for loop takes the next port and serial.Serial opens it
OpenPort ==
    /\ pc = "for"
    /\ idx < Len(ports)
    /\ idx' = idx + 1
    /\ visited' = Append(visited, ports[idx + 1])
    /\ open' = open \cup {ports[idx + 1]}
    /\ ser_timeout' = timeout
    /\ inbuf' = <<>>
    /\ pending' = <<>>
    /\ sent' = <<>>
    /\ dev' \in Devices
    /\ lastRead' = NoRead
    /\ fault' = "none"
    /\ pc' = "mdl_write"
    /\ UNCHANGED <<max_retries, timeout, retries, detected, ports, result, passes,
                   sleeps, errored, classified>>
    /\ UNCHANGED <<compVars, waitVars>>

\* line 96-100, 118-120: serial.Serial raises, nothing was opened
OpenFail ==
    /\ pc = "for"
    /\ idx < Len(ports)
    /\ idx' = ExceptContinue(idx + 1)
    /\ visited' = Append(visited, ports[idx + 1])
    /\ errored' = errored \cup {ports[idx + 1]}
    /\ sent' = <<>>
    /\ dev' = NoDevice
    /\ lastRead' = NoRead
    /\ fault' = "open"
    /\ pc' = "for"
    /\ UNCHANGED <<max_retries, timeout, retries, detected, ports, result, passes,
                   sleeps, classified>>
    /\ UNCHANGED <<open, ser_timeout, inbuf, pending>>
    /\ UNCHANGED <<compVars, waitVars>>

\* line 104: ser.write(b"MDL\r"); the device answers, in time or late
WriteMDL ==
    /\ pc = "mdl_write"
    /\ sent' = sent \o MDL_CMD
    /\ inbuf' = IF dev.late THEN inbuf ELSE inbuf \o dev.mdl
    /\ pending' = IF dev.late THEN dev.mdl ELSE pending
    /\ pc' = "mdl_read"
    /\ UNCHANGED <<max_retries, timeout, retries, detected, ports, idx, result,
                   passes, sleeps, visited, errored, classified>>
    /\ UNCHANGED <<open, ser_timeout, dev, lastRead, fault>>
    /\ UNCHANGED <<compVars, waitVars>>

\* line 105-110: response = read_response(ser); a Uniden reply is recorded and
\* the loop continues, a decode error goes to the except clause, anything
\* else goes on to the WI probe.  Every way out of the with block closes.
ReadMDL ==
    /\ pc = "mdl_read"
    /\ LET r == read_response(inbuf, ReadDefaultTimeout)
           m == mdl_pattern_match(r.response)
       IN  /\ lastRead' = [probe |-> "MDL", timeout |-> r.timeout, raw |-> r.raw,
                           rest |-> r.rest, terminated |-> r.terminated,
                           raised |-> r.raised, response |-> r.response]
           /\ ser_timeout' = r.timeout
           /\ inbuf' = r.rest \o pending
           /\ pending' = <<>>
           /\ IF r.raised
              THEN /\ errored' = errored \cup {CurPort}
                   /\ open' = CloseConn(CurPort)
                   /\ idx' = ExceptContinue(idx)
                   /\ pc' = "for"
                   /\ fault' = "decode"
                   /\ UNCHANGED <<detected, classified>>
              ELSE /\ detected' = IF m.matched
                                  THEN Append(detected, <<CurPort, m.group1, "uniden">>)
                                  ELSE detected
                   /\ classified' = IF m.matched
                                    THEN Append(classified, <<CurPort, m.group1, "uniden">>)
                                    ELSE classified
                   /\ fault' = "none"
                   /\ pc' = AfterMdl(m.matched)
                   /\ open' = IF pc' = "for" THEN CloseConn(CurPort) ELSE open
                   /\ UNCHANGED <<idx, errored>>
    /\ UNCHANGED <<max_retries, timeout, retries, ports, result, passes, sleeps,
                   visited>>
    /\ UNCHANGED <<sent, dev>>
    /\ UNCHANGED <<compVars, waitVars>>

\* line 113: ser.write(b"WI\r"); the device answers
WriteWI ==
    /\ pc = "wi_write"
    /\ sent' = sent \o WI_CMD
    /\ inbuf' = inbuf \o dev.wi
    /\ pc' = "wi_read"
    /\ UNCHANGED <<max_retries, timeout, retries, detected, ports, idx, result,
                   passes, sleeps, visited, errored, classified>>
    /\ UNCHANGED <<open, ser_timeout, pending, dev, lastRead, fault>>
    /\ UNCHANGED <<compVars, waitVars>>

\* line 114-117: response = read_response(ser); an AR-DV1 reply is recorded;
\* the with block ends and closes the connection
ReadWI ==
    /\ pc = "wi_read"
    /\ LET r == read_response(inbuf, ReadDefaultTimeout)
       IN  /\ lastRead' = [probe |-> "WI", timeout |-> r.timeout, raw |-> r.raw,
                           rest |-> r.rest, terminated |-> r.terminated,
                           raised |-> r.raised, response |-> r.response]
           /\ ser_timeout' = r.timeout
           /\ inbuf' = r.rest \o pending
           /\ pending' = <<>>
           /\ IF r.raised
              THEN /\ errored' = errored \cup {CurPort}
                   /\ idx' = ExceptContinue(idx)
                   /\ fault' = "decode"
                   /\ UNCHANGED <<detected, classified>>
              ELSE /\ detected' = IF IsAorReply(r.response)
                                  THEN Append(detected, AorEntry(CurPort))
                                  ELSE detected
                   /\ classified' = IF IsAorReply(r.response)
                                    THEN Append(classified, AorEntry(CurPort))
                                    ELSE classified
                   /\ fault' = "none"
                   /\ UNCHANGED <<idx, errored>>
    /\ open' = CloseConn(CurPort)
    /\ pc' = "for"
    /\ UNCHANGED <<max_retries, timeout, retries, ports, result, passes, sleeps,
                   visited>>
    /\ UNCHANGED <<sent, dev>>
    /\ UNCHANGED <<compVars, waitVars>>

\* line 104-105, 113-114, 118-120: ser.write or ser.read_until raises a
\* SerialException; the with block closes the connection, the except clause
\* logs and continues
ProbeError ==
    /\ pc \in {"mdl_write", "mdl_read", "wi_write", "wi_read"}
    /\ errored' = errored \cup {CurPort}
    /\ open' = CloseConn(CurPort)
    /\ idx' = ExceptContinue(idx)
    /\ fault' = "io"
    /\ pc' = "for"
    /\ UNCHANGED <<max_retries, timeout, retries, detected, ports, result, passes,
                   sleeps, visited, classified>>
    /\ UNCHANGED <<ser_timeout, inbuf, pending, sent, dev, lastRead>>
    /\ UNCHANGED <<compVars, waitVars>>

\* line 122-123: the for loop is over and something was detected
PassFound ==
    /\ pc = "for"
    /\ idx >= Len(ports)
    /\ FoundAfterPass(detected)
    /\ passes' = passes + 1
    /\ result' = detected
    /\ pc' = "done"
    /\ UNCHANGED <<max_retries, timeout, retries, detected, ports, idx, sleeps,
                   visited, errored, classified>>
    /\ ForgetProbe
    /\ UNCHANGED <<compVars, waitVars>>

\* line 122, 125-126: the for loop is over and nothing was detected
PassEmpty ==
    /\ pc = "for"
    /\ idx >= Len(ports)
    /\ ~FoundAfterPass(detected)
    /\ passes' = passes + 1
    /\ retries' = RetryIncrement(retries)
    /\ pc' = "sleep"
    /\ UNCHANGED <<max_retries, timeout, detected, ports, idx, result, sleeps,
                   visited, errored, classified>>
    /\ ForgetProbe
    /\ UNCHANGED <<compVars, waitVars>>

\* line 127: time.sleep(3)
Sleep ==
    /\ pc = "sleep"
    /\ sleeps' = sleeps + 1
    /\ pc' = "while"
    /\ UNCHANGED <<max_retries, timeout, retries, detected, ports, idx, result,
                   passes, visited, errored, classified>>
    /\ UNCHANGED <<connVars, compVars, waitVars>>

InitCompIdle ==
    /\ COMMANDS = <<>>
    /\ buffer = <<>>
    /\ comp_state = -1
    /\ comp_matches = <<>>
    /\ comp_result = [none |-> TRUE, value |-> <<>>]

InitWaitIdle ==
    /\ w_pc = "idle"
    /\ max_wait = 0
    /\ w_elapsed = 0
    /\ w_result = "none"
    /\ w_polls = 0
    /\ w_first_avail = 0

Init == InitDisc /\ InitConn /\ InitCompIdle /\ InitWaitIdle

Next ==
    \/ StartPass
    \/ Exhausted
    \/ OpenPort
    \/ OpenFail
    \/ ProbeError
    \/ WriteMDL
    \/ ReadMDL
    \/ WriteWI
    \/ ReadWI
    \/ PassFound
    \/ PassEmpty
    \/ Sleep

Spec == Init /\ [][Next]_vars

\* find_scanner_port runs in one thread of blocking calls, each bounded by a
\* timeout: whenever it has a next step it takes it
SpecFair == Init /\ [][Next]_vars /\ WF_vars(Next)

----------------------------------------------------------------------------
\* The transport functions on one open connection, called by the rest of the
\* program: clear_serial_buffer, read_response, send_command

MaxStale == 2      \* at most this many unread bytes arrive unasked
MaxCmds == 1       \* at most this many commands are sent

\* Bytes that arrive without a command having asked for them
StaleBytes == {"x", CR, "FF"}

\* Command texts given to send_command
Commands == { <<"M", "D", "L">>, <<"W", "I">> }

\* What the device sends back within the read window of a command
CommandReplies ==
    { <<>>,
      <<"M", "D", "L", ",", "B", "1", CR>>,
      <<"M", "D", "L", ",", "B">>,
      <<"A", "R", "-", "D", "V", "1", CR>>,
      <<"x", CR, "x", CR>>,
      <<"FF", CR>> }

\* The timeout values given to read_response
Timeouts == {ProbeTimeout, ReadDefaultTimeout}

\* Number of commands written so far
CmdsSent == Cardinality({ i \in 1..Len(sent) : sent[i] = CR })

InitTransport ==
    /\ pc = "idle"
    /\ max_retries = 0
    /\ timeout = ProbeTimeout
    /\ retries = 0
    /\ detected = <<>>
    /\ ports = <<1>>
    /\ idx = 1
    /\ result = <<>>
    /\ passes = 0
    /\ sleeps = 0
    /\ visited = <<>>
    /\ errored = {}
    /\ classified = <<>>
    /\ open = {1}
    /\ ser_timeout \in Timeouts
    /\ inbuf = <<>>
    /\ pending = <<>>
    /\ sent = <<>>
    /\ dev = NoDevice
    /\ lastRead = NoRead
    /\ fault = "none"

\* The device sends a byte nobody asked for
DeviceSends ==
    /\ pc = "idle"
    /\ Len(inbuf) < MaxStale
    /\ \E b \in StaleBytes : inbuf' = Append(inbuf, b)
    /\ UNCHANGED <<open, ser_timeout, pending, sent, dev, lastRead, fault>>
    /\ UNCHANGED <<discVars, compVars, waitVars>>

\* line 50-58: clear_serial_buffer(ser)
ClearSerialBuffer ==
    /\ pc = "idle"
    /\ inbuf' = <<>>
    /\ UNCHANGED <<open, ser_timeout, pending, sent, dev, lastRead, fault>>
    /\ UNCHANGED <<discVars, compVars, waitVars>>

\* line 61-69: read_response(ser, timeout) called with timeout t
ReadResponse ==
    /\ pc = "idle"
    /\ \E t \in Timeouts :
         LET r == read_response(inbuf, t)
         IN  /\ lastRead' = [probe |-> "read_response", timeout |-> r.timeout,
                             raw |-> r.raw, rest |-> r.rest,
                             terminated |-> r.terminated, raised |-> r.raised,
                             response |-> r.response]
             /\ ser_timeout' = r.timeout
             /\ inbuf' = r.rest
             /\ fault' = IF r.raised THEN "decode" ELSE "none"
    /\ UNCHANGED <<open, pending, sent, dev>>
    /\ UNCHANGED <<discVars, compVars, waitVars>>

\* line 79: read_response(ser) is called without a timeout argument, so the
\* read uses the default of read_response
SendCommandTimeout_configured == ser_timeout
SendCommandTimeout == ReadDefaultTimeout

\* line 72-79: send_command(ser, cmd): ser.write(f"{cmd}\r".encode("utf-8")),
\* then return read_response(ser); the device answers within the read window
SendCommand ==
    /\ pc = "idle"
    /\ CmdsSent < MaxCmds
    /\ \E cmd \in Commands, reply \in CommandReplies :
         LET r == read_response(inbuf \o reply, SendCommandTimeout)
         IN  /\ sent' = sent \o cmd \o <<CR>>
             /\ lastRead' = [probe |-> "send_command", timeout |-> r.timeout,
                             raw |-> r.raw, rest |-> r.rest,
                             terminated |-> r.terminated, raised |-> r.raised,
                             response |-> r.response]
             /\ ser_timeout' = r.timeout
             /\ inbuf' = r.rest
             /\ fault' = IF r.raised THEN "decode" ELSE "none"
    /\ UNCHANGED <<open, pending, dev>>
    /\ UNCHANGED <<discVars, compVars, waitVars>>

NextTransport ==
    \/ DeviceSends
    \/ ClearSerialBuffer
    \/ ReadResponse
    \/ SendCommand

InitT == InitTransport /\ InitCompIdle /\ InitWaitIdle

SpecTransport == InitT /\ [][NextTransport]_vars

----------------------------------------------------------------------------
\* wait_for_data(ser, max_wait), in units of the poll interval of
\* time.sleep(0.01)

MaxWait == 3       \* max_wait ranges over 0..MaxWait poll intervals

\* line 140: while time.time() - start < max_wait
WaitCond == w_elapsed < max_wait

\* line 141: if ser.in_waiting
HasData_twoBytes(buf) == Len(buf) > 1
HasData(buf) == Len(buf) # 0

\* line 139: the call has taken start = time.time()
InitWait ==
    /\ w_pc = "loop"
    /\ max_wait \in 0..MaxWait
    /\ w_elapsed = 0
    /\ w_result = "none"
    /\ w_polls = 0
    /\ w_first_avail = 0
    /\ pc = "idle"
    /\ timeout = ProbeTimeout
    /\ retries = 0
    /\ detected = <<>>
    /\ ports = <<1>>
    /\ idx = 1
    /\ result = <<>>
    /\ passes = 0
    /\ sleeps = 0
    /\ visited = <<>>
    /\ errored = {}
    /\ classified = <<>>
    /\ open = {1}
    /\ ser_timeout = ReadDefaultTimeout
    /\ inbuf \in {<<>>, <<"x">>}
    /\ pending = <<>>
    /\ sent = <<>>
    /\ dev = NoDevice
    /\ lastRead = NoRead
    /\ fault = "none"

\* A byte arrives while wait_for_data runs
ByteArrives ==
    /\ w_pc \in {"loop", "sleep"}
    /\ Len(inbuf) < MaxStale
    /\ \E b \in StaleBytes : inbuf' = Append(inbuf, b)
    /\ UNCHANGED <<open, ser_timeout, pending, sent, dev, lastRead, fault>>
    /\ UNCHANGED <<discVars, compVars, waitVars>>

\* line 140-142: the loop condition holds and ser.in_waiting is true
WaitPollTrue ==
    /\ w_pc = "loop"
    /\ WaitCond
    /\ HasData(inbuf)
    /\ w_polls' = w_polls + 1
    /\ w_first_avail' = IF w_first_avail = 0 /\ inbuf # <<>>
                        THEN w_polls + 1 ELSE w_first_avail
    /\ w_result' = "True"
    /\ w_pc' = "done"
    /\ UNCHANGED <<max_wait, w_elapsed>>
    /\ UNCHANGED <<discVars, connVars, compVars>>

\* line 140-143: the loop condition holds, ser.in_waiting is false, on to
\* time.sleep(0.01)
WaitPollFalse ==
    /\ w_pc = "loop"
    /\ WaitCond
    /\ ~HasData(inbuf)
    /\ w_polls' = w_polls + 1
    /\ w_first_avail' = IF w_first_avail = 0 /\ inbuf # <<>>
                        THEN w_polls + 1 ELSE w_first_avail
    /\ w_pc' = "sleep"
    /\ UNCHANGED <<max_wait, w_elapsed, w_result>>
    /\ UNCHANGED <<discVars, connVars, compVars>>

\* line 143: time.sleep(0.01) is over
WaitSleep ==
    /\ w_pc = "sleep"
    /\ w_elapsed' = w_elapsed + 1
    /\ w_pc' = "loop"
    /\ UNCHANGED <<max_wait, w_result, w_polls, w_first_avail>>
    /\ UNCHANGED <<discVars, connVars, compVars>>

\* line 140, 144: the loop condition fails, return False
WaitTimeout ==
    /\ w_pc = "loop"
    /\ ~WaitCond
    /\ w_result' = "False"
    /\ w_pc' = "done"
    /\ UNCHANGED <<max_wait, w_elapsed, w_polls, w_first_avail>>
    /\ UNCHANGED <<discVars, connVars, compVars>>

NextWait ==
    \/ ByteArrives
    \/ WaitPollTrue
    \/ WaitPollFalse
    \/ WaitSleep
    \/ WaitTimeout

InitW == InitWait /\ max_retries = 0 /\ InitCompIdle

SpecWait == InitW /\ [][NextWait]_vars

----------------------------------------------------------------------------
\* readlineSetup.py: the completer callback of initialize_readline(COMMANDS).
\* COMMANDS is a dict: here the sequence of its entries in insertion order,
\* each a command name and the handler's __doc__ (hasdoc = FALSE: None).

MaxBuf == 4        \* at most this many characters are typed
MaxState == 2      \* readline asks for the candidates 0..MaxState

\* The characters that can be typed
Keys == {"v", "o", "V", "O", " "}

\* str.lower(), character by character
LowerChar(c) == IF c = "V" THEN "v" ELSE IF c = "O" THEN "o" ELSE c
lower(s) == [i \in 1..Len(s) |-> LowerChar(s[i])]

\* str.startswith
startswith(s, prefix) ==
    Len(prefix) <= Len(s) /\ SubSeq(s, 1, Len(prefix)) = prefix

\* str.endswith
endswith(s, suffix) ==
    Len(suffix) <= Len(s) /\ SubSeq(s, Len(s) - Len(suffix) + 1, Len(s)) = suffix

\* Length of the leading run of non-whitespace characters of s
RECURSIVE WordLen(_)
WordLen(s) ==
    IF s = <<>> \/ IsWhitespace(Head(s)) THEN 0 ELSE 1 + WordLen(Tail(s))

\* str.split(): the maximal runs of non-whitespace characters, in order
RECURSIVE split(_)
split(s) ==
    LET t == lstrip(s)
        n == WordLen(t)
    IN  IF t = <<>> THEN <<>>
        ELSE <<SubSeq(t, 1, n)>> \o split(SubSeq(t, n + 1, Len(t)))

\* The text readline hands to the completer with the cursor at the end of
\* the line: the characters after the last word break
RECURSIVE readline_text(_)
readline_text(b) ==
    IF b = <<>> \/ b[Len(b)] = " " THEN <<>>
    ELSE Append(readline_text(SubSeq(b, 1, Len(b) - 1)), b[Len(b)])

\* The registries the completer is set up with
Registries ==
    { << [name |-> <<"v", "o">>, hasdoc |-> TRUE,
          doc |-> <<LF, " ", "o", "v", " ", "v", "v", LF>>],
         [name |-> <<"o", "v">>, hasdoc |-> FALSE, doc |-> <<>>] >>,
      << [name |-> <<"o">>, hasdoc |-> TRUE, doc |-> <<"v", " ", "o", " ", "v", "o">>],
         [name |-> <<"v", "o">>, hasdoc |-> TRUE, doc |-> <<>>],
         [name |-> <<"v">>, hasdoc |-> TRUE, doc |-> <<"O", "v">>] >> }

\* "command in COMMANDS" and COMMANDS[command]
InRegistry(reg, command) == \E i \in 1..Len(reg) : reg[i].name = command
Handler(reg, command) == reg[CHOOSE i \in 1..Len(reg) : reg[i].name = command]

\* "[cmd for cmd in COMMANDS if cmd.startswith(text)]"
RECURSIVE TopLevelMatches(_, _)
TopLevelMatches(reg, text) ==
    IF reg = <<>> THEN <<>>
    ELSE (IF startswith(Head(reg).name, text) THEN <<Head(reg).name>> ELSE <<>>)
         \o TopLevelMatches(Tail(reg), text)

\* "[sub for sub in subcommands if sub.startswith(text)]"
RECURSIVE SubMatches(_, _)
SubMatches(subs, text) ==
    IF subs = <<>> THEN <<>>
    ELSE (IF startswith(Head(subs), text) THEN <<Head(subs)>> ELSE <<>>)
         \o SubMatches(Tail(subs), text)

\* line 58: command = parts[0].lower()
CommandKey_asTyped(word) == word
CommandKey(word) == lower(word)

\* line 49-75: the matches list completer builds for the raw line buffer
\* line and the partial token text
completer_matches(reg, line, text) ==
    LET buf   == strip(line)
        parts == split(buf)
    IN  IF Len(parts) = 0 \/ (Len(parts) = 1 /\ ~endswith(buf, <<" ">>))
        THEN TopLevelMatches(reg, text)
        ELSE IF Len(parts) >= 1
        THEN LET command == CommandKey(parts[1])
             IN  IF InRegistry(reg, command)
                 THEN LET h == Handler(reg, command)
                          subcommands == IF h.hasdoc /\ h.doc # <<>>
                                         THEN split(h.doc) ELSE <<>>
                      IN  SubMatches(subcommands, text)
                 ELSE <<>>
        ELSE <<>>

\* line 77-81: matches[state], or None on IndexError
completer_result_fromOne(matches, state) ==
    IF state >= 1 /\ state <= Len(matches)
    THEN [none |-> FALSE, value |-> matches[state]]
    ELSE [none |-> TRUE, value |-> <<>>]

completer_result(matches, state) ==
    IF state + 1 <= Len(matches)
    THEN [none |-> FALSE, value |-> matches[state + 1]]
    ELSE [none |-> TRUE, value |-> <<>>]

InitCompleter ==
    /\ COMMANDS \in Registries
    /\ buffer = <<>>
    /\ comp_state = -1
    /\ comp_matches = <<>>
    /\ comp_result = [none |-> TRUE, value |-> <<>>]

\* The user types a character; what the last call returned is stale
TypeChar ==
    /\ Len(buffer) < MaxBuf
    /\ \E c \in Keys : buffer' = Append(buffer, c)
    /\ comp_state' = -1
    /\ comp_matches' = <<>>
    /\ comp_result' = [none |-> TRUE, value |-> <<>>]
    /\ UNCHANGED COMMANDS
    /\ UNCHANGED <<discVars, connVars, waitVars>>

\* line 43-81: readline calls completer(text, state)
Complete ==
    /\ \E state \in 0..MaxState :
         LET matches == completer_matches(COMMANDS, buffer, readline_text(buffer))
         IN  /\ comp_state' = state
             /\ comp_matches' = matches
             /\ comp_result' = completer_result(matches, state)
    /\ UNCHANGED <<COMMANDS, buffer>>
    /\ UNCHANGED <<discVars, connVars, waitVars>>

NextCompleter ==
    \/ TypeChar
    \/ Complete

InitC == InitDisc /\ InitConn /\ InitCompleter /\ InitWaitIdle

SpecCompleter == InitC /\ [][NextCompleter]_vars

----------------------------------------------------------------------------
\* Properties of find_scanner_port

\* The ProbeResults of list d that are about endpoint e
EntriesOf(d, e) == { i \in 1..Len(d) : d[i][1] = e }

\* The Uniden model-response grammar ^MDL,[A-Za-z0-9,]+$ as the specification
\* words it: the literal MDL, a comma, then one or more letters, digits or
\* commas, and nothing else
IsUnidenReply(s) ==
    /\ Len(s) >= 5
    /\ s[1] = "M" /\ s[2] = "D" /\ s[3] = "L" /\ s[4] = ","
    /\ \A i \in 5..Len(s) : s[i] \in Upper \cup Lower \cup Digit \cup {","}

\* The text after the first comma of a reply
AfterFirstComma(s) == [i \in 1..(Len(s) - 4) |-> s[i + 4]]

\* C1: a run over endpoints that never yield a classified device (the run ends
\* with an empty list) has made exactly max_retries + 1 full passes.
C1_EmptyRunMakesRPlusOnePasses ==
    (pc = "done" /\ result = <<>>) => passes = max_retries + 1

\* C2: at most one Connection is open at any instant, it is the current
\* endpoint's, and none is open when the loop is about to take the next
\* endpoint, between passes, or once find_scanner_port has returned.
C2_ConnectionClosedOnEveryPath ==
    /\ Cardinality(open) <= 1
    /\ pc \in {"mdl_write", "mdl_read", "wi_write", "wi_read"} => open = {CurPort}
    /\ pc \in {"while", "for", "sleep", "done"} => open = {}

\* C2 witness: the Uniden match left the with block through the early
\* continue and the connection is closed
C2_Witness ==
    /\ pc = "for"
    /\ idx >= 1
    /\ lastRead.probe = "MDL"
    /\ IsUnidenReply(lastRead.response)
    /\ open = {}
    /\ sent # <<>>

\* C3: a reply to the MDL probe that matches the Uniden grammar is recorded
\* as uniden, and an endpoint recorded as uniden has exactly one ProbeResult
\* in the pass, <<endpoint, text after the first comma, "uniden">>, with the
\* loop at its next iteration and only the MDL probe ever written to it.
C3_UnidenMatchSkipsWI ==
    /\ (lastRead.probe = "MDL" /\ ~lastRead.raised /\ IsUnidenReply(lastRead.response))
       => \E i \in EntriesOf(classified, CurPort) : classified[i][3] = "uniden"
    /\ (lastRead.probe \in {"MDL", "WI"} /\ fault = "none"
           /\ \E i \in EntriesOf(classified, CurPort) : classified[i][3] = "uniden")
       => /\ pc = "for"
          /\ lastRead.probe = "MDL"
          /\ IsUnidenReply(lastRead.response)
          /\ Cardinality(EntriesOf(classified, CurPort)) = 1
          /\ \A i \in EntriesOf(classified, CurPort) :
                 classified[i] = <<CurPort, AfterFirstComma(lastRead.response), "uniden">>
          /\ sent = MDL_CMD

\* C3 witness: a device that answers MDL with a model and would answer WI
\* with AR-DV1 has been recorded as uniden
C3_Witness ==
    /\ pc = "for"
    /\ idx >= 1
    /\ dev.wi = AR_DV1 \o <<CR>>
    /\ lastRead.probe = "MDL"
    /\ IsUnidenReply(lastRead.response)
    /\ <<CurPort, <<"B", ",", "1">>, "uniden">> \in { classified[i] : i \in 1..Len(classified) }

\* Bytes that answer a probe and do not form a Uniden model response
IsGarbage(b) ==
    /\ b # <<>>
    /\ ~(utf8_decode(b).ok /\ IsUnidenReply(strip(utf8_decode(b).text)))

\* C4: when the device answered the MDL probe in time with garbage and answers
\* the WI probe with AR-DV1, and no open, write or read error occurred, the
\* finished probe has written WI and recorded <<endpoint, "AR-DV1", "aordv1">>.
C4_GarbageThenAorClassified ==
    (/\ pc = "for"
     /\ idx >= 1
     /\ lastRead.probe # "none"
     /\ fault \notin {"open", "io"}
     /\ ~dev.late
     /\ IsGarbage(dev.mdl)
     /\ dev.wi = AR_DV1 \o <<CR>>)
    => /\ sent = MDL_CMD \o WI_CMD
       /\ \E i \in EntriesOf(classified, CurPort) :
              classified[i] = <<CurPort, AR_DV1, "aordv1">>

\* C5: a read that saw no CR before its timeout returns the empty string,
\* whatever arrived, and so records nothing for the endpoint.
C5_NoTerminatorGivesEmpty ==
    (lastRead.probe # "none" /\ ~lastRead.terminated)
    => /\ ~lastRead.raised
       /\ lastRead.response = <<>>
       /\ EntriesOf(classified, CurPort) = {}

\* Position of endpoint e in the enumeration of the current pass
PortIndex(e) == CHOOSE k \in 1..Len(ports) : ports[k] = e

\* C7: a probe that raises (on open, write, read or decode) leaves the
\* recorded ProbeResults as they were and the loop at its next iteration; the
\* endpoint that raised has no ProbeResult; and every pass that ends has
\* taken every enumerated endpoint.
C7_ErrorNeverAbortsScan ==
    /\ [](/\ pc \in {"while", "sleep", "done"} => visited = ports
          /\ \A e \in errored : EntriesOf(classified, e) = {} /\ EntriesOf(detected, e) = {}
          /\ fault # "none" => (pc = "for" /\ CurPort \in errored))
    /\ [][(errored' # errored /\ errored' # {})
            => /\ detected' = detected
               /\ classified' = classified
               /\ result' = result
               /\ pc' = "for"]_vars

\* C7 witness: the first endpoint raised, and the second was still probed and
\* classified
C7_Witness ==
    /\ pc = "for"
    /\ Len(ports) = 2
    /\ idx = 2
    /\ errored = {ports[1]}
    /\ EntriesOf(classified, ports[2]) # {}

\* C8: a run that returns a non-empty list returns exactly what the pass just
\* finished classified, in enumeration order, after taking every endpoint of
\* that pass; every earlier pass was empty and was followed by one wait, and
\* no wait follows a pass that classified something.
C8_ReturnsAfterFirstSuccessfulPass ==
    /\ (pc = "done" /\ result # <<>>)
       => /\ result = classified
          /\ idx = Len(ports)
          /\ visited = ports
          /\ passes = retries + 1
          /\ sleeps = retries
          /\ \A i, j \in 1..Len(result) :
                 i < j => PortIndex(result[i][1]) < PortIndex(result[j][1])
    /\ pc \in {"sleep", "while"} => classified = <<>>
    /\ (pc = "done" /\ result = <<>>) => classified = <<>>

\* C8 witness: an empty pass, a wait, then a pass in which both endpoints were
\* classified, and the return
C8_Witness ==
    /\ pc = "done"
    /\ Len(result) = 2
    /\ passes = 2
    /\ sleeps = 1

\* C15: every wait is followed by another pass, so a finished run of p
\* passes has made p - 1 waits (none when no pass was made).
C15_WaitsOnlyBetweenPasses ==
    /\ pc = "sleep" => retries < max_retries
    /\ pc = "done" => sleeps = (IF passes = 0 THEN 0 ELSE passes - 1)

\* C16: every probe read, after MDL and after WI, was made with the
\* per-probe timeout given to find_scanner_port in force on the connection.
C16_ProbeReadsUseProbeTimeout ==
    lastRead.probe \in {"MDL", "WI"}
    => (lastRead.timeout = timeout /\ ser_timeout = timeout)

\* C17: find_scanner_port terminates, after at most max_retries passes; it
\* returns the empty list, or a non-empty list that is what its last pass
\* classified.
C17_DiscoveryTerminates ==
    /\ <>(pc = "done")
    /\ [](passes <= max_retries /\ retries <= max_retries /\ sleeps <= max_retries)
    /\ [](pc = "done"
            => /\ open = {}
               /\ result = detected
               /\ result # <<>> => (classified # <<>> /\ result = classified))

\* C17 witness, Exhausted: two passes over two endpoints, none classified,
\* one of them raising, and the empty list returned
C17_Witness ==
    /\ pc = "done"
    /\ result = <<>>
    /\ passes = 2
    /\ Len(ports) = 2
    /\ errored # {}

\* C17 witness, Found
C17_WitnessFound ==
    /\ pc = "done"
    /\ result # <<>>
    /\ passes = 2

\* C18: the line compared with AR-DV1 is what the device sent after the WI
\* write: when the reply to MDL arrives late and the device answers WI with
\* AR-DV1, the WI read returns that answer and the endpoint is recorded.
C18_LateMdlReplyNotTakenForWI ==
    (/\ pc = "for"
     /\ idx >= 1
     /\ fault = "none"
     /\ lastRead.probe = "WI"
     /\ dev.late
     /\ dev.wi = AR_DV1 \o <<CR>>)
    => /\ lastRead.raw = dev.wi
       /\ \E i \in EntriesOf(classified, CurPort) :
              classified[i] = <<CurPort, AR_DV1, "aordv1">>

\* text is lit with nothing but whitespace before and after it
TrimmedEquals(text, lit) ==
    \E a \in 0..Len(text) :
        /\ a + Len(lit) <= Len(text)
        /\ \A i \in 1..a : IsWhitespace(text[i])
        /\ \A i \in 1..Len(lit) : text[a + i] = lit[i]
        /\ \A i \in (a + Len(lit) + 1)..Len(text) : IsWhitespace(text[i])

\* C19: a probe that ended without raising has recorded the endpoint as
\* uniden, with the text after the first comma as model, exactly when the
\* line read after MDL matches the grammar; it went on to WI exactly when
\* that line does not match; and after WI it has recorded the endpoint as
\* aordv1 with tag AR-DV1 exactly when the line read is AR-DV1 between
\* whitespace; otherwise it has recorded nothing.
C19_ClassificationByTheTwoRules ==
    /\ (pc = "for" /\ fault = "none" /\ lastRead.probe = "MDL")
       => /\ IsUnidenReply(lastRead.response)
          /\ \A i \in EntriesOf(classified, CurPort) :
                 classified[i] = <<CurPort, AfterFirstComma(lastRead.response), "uniden">>
          /\ Cardinality(EntriesOf(classified, CurPort)) = 1
    /\ (pc \in {"wi_write", "wi_read"})
       => /\ lastRead.probe = "MDL"
          /\ ~IsUnidenReply(lastRead.response)
          /\ EntriesOf(classified, CurPort) = {}
    /\ (pc = "for" /\ fault = "none" /\ lastRead.probe = "WI")
       => IF TrimmedEquals(utf8_decode(lastRead.raw).text, AR_DV1)
          THEN /\ Cardinality(EntriesOf(classified, CurPort)) = 1
               /\ \A i \in EntriesOf(classified, CurPort) :
                      classified[i] = <<CurPort, AR_DV1, "aordv1">>
          ELSE EntriesOf(classified, CurPort) = {}
    /\ (pc = "for" /\ idx >= 1 /\ fault # "none")
       => EntriesOf(classified, CurPort) = {}

\* C19 witness: the WI reply AR-DV1X, AR-DV1 followed by more text, was read
\* and nothing was recorded
C19_Witness ==
    /\ pc = "for"
    /\ fault = "none"
    /\ lastRead.probe = "WI"
    /\ lastRead.response = <<"A", "R", "-", "D", "V", "1", "X">>
    /\ EntriesOf(classified, CurPort) = {}

\* C19 witness, whitespace: AR-DV1 between blanks was read and recorded
C19_WitnessTrimmed ==
    /\ pc = "for"
    /\ lastRead.probe = "WI"
    /\ lastRead.raw = <<" ", "A", "R", "-", "D", "V", "1", " ", CR>>
    /\ EntriesOf(classified, CurPort) # {}

\* C20: in the returned list every endpoint is an enumerated one and has at
\* most one entry, every dialect is uniden or aordv1, every aordv1 entry has
\* the tag AR-DV1, and every entry was recorded in the last pass made.
C20_ReturnedListWellFormed ==
    pc = "done"
    => /\ \A i \in 1..Len(result) :
            /\ \E k \in 1..Len(ports) : ports[k] = result[i][1]
            /\ result[i][3] \in {"uniden", "aordv1"}
            /\ result[i][3] = "aordv1" => result[i][2] = AR_DV1
            /\ \E k \in 1..Len(classified) : classified[k] = result[i]
       /\ \A i, j \in 1..Len(result) : result[i][1] = result[j][1] => i = j

\* C20 witness: a returned list holding one entry of each dialect
C20_Witness ==
    /\ pc = "done"
    /\ Len(result) = 2
    /\ result[1][3] = "aordv1"
    /\ result[2][3] = "uniden"

----------------------------------------------------------------------------
\* Properties of the transport functions

\* C6: when the bytes a read received are not valid text, read_response and
\* send_command return the empty response and raise nothing.
C6_DecodeFailureNotEscalated ==
    (lastRead.probe \in {"read_response", "send_command"}
        /\ ~utf8_decode(lastRead.raw).ok)
    => /\ fault = "none"
       /\ ~lastRead.raised
       /\ lastRead.response = <<>>

\* C12: a send_command call appends the command text and exactly one CR to
\* what was written, reads with the timeout the connection was configured
\* with before the call, and leaves that configured timeout as it was.
C12_SendCommandKeepsTimeout ==
    [][sent' # sent
        => /\ \E cmd \in Commands : sent' = sent \o cmd \o <<CR>>
           /\ lastRead'.probe = "send_command"
           /\ lastRead'.timeout = ser_timeout
           /\ ser_timeout' = ser_timeout]_vars

\* C12, as the code has it: a send_command call appends the command text and
\* exactly one CR to what was written, reads with the default timeout of
\* read_response (1.0 s) whatever the connection was configured with, and
\* leaves the connection's timeout at that default.
C12_SendCommandUsesDefaultTimeout ==
    [][sent' # sent
        => /\ \E cmd \in Commands : sent' = sent \o cmd \o <<CR>>
           /\ lastRead'.probe = "send_command"
           /\ lastRead'.timeout = ReadDefaultTimeout
           /\ ser_timeout' = ReadDefaultTimeout]_vars

\* C12 witness: a command was sent and its reply read
C12_Witness ==
    /\ pc = "idle"
    /\ sent = <<"M", "D", "L", CR>>
    /\ lastRead.probe = "send_command"
    /\ lastRead.timeout = ReadDefaultTimeout
    /\ lastRead.response = <<"M", "D", "L", ",", "B", "1">>

\* C13: the line a send_command call reads is the first line of what the
\* device sent after the command was written: bytes that were buffered
\* before the call are not part of it.
C13_SendCommandDropsStaleBytes ==
    [][sent' # sent
        => \E reply \in CommandReplies : lastRead'.raw = read_until(reply).data]_vars

----------------------------------------------------------------------------
\* Properties of the completer

\* The line is one word followed by one trailing space
OneWordThenSpace(b) ==
    /\ Len(b) >= 2
    /\ b[Len(b)] = " "
    /\ \A i \in 1..(Len(b) - 1) : b[i] # " "

\* The words of a line, cut at the spaces
Words(b) == split(b)

\* The whitespace-separated tokens of the documentation of the command
\* named key, none when the handler has no documentation
DocTokens(reg, key) ==
    LET h == Handler(reg, key)
    IN  IF h.hasdoc THEN split(h.doc) ELSE <<>>

\* C9: for a line made of one word and a trailing space, the candidates are
\* the command's documentation tokens when the word is a registered command
\* and none when it is not; command names are not offered.
C9_TrailingSpaceOffersSubcommands ==
    (comp_state >= 0 /\ OneWordThenSpace(buffer))
    => LET word == SubSeq(buffer, 1, Len(buffer) - 1)
       IN  comp_matches = IF InRegistry(COMMANDS, lower(word))
                          THEN DocTokens(COMMANDS, lower(word))
                          ELSE <<>>

RegistryNames(reg) == [i \in 1..Len(reg) |-> reg[i].name]

\* list m is list src with exactly the elements starting with text kept, in
\* the order of src
IsOrderedFilter(m, src, text) ==
    LET keep == { k \in 1..Len(src) : startswith(src[k], text) }
    IN  /\ Len(m) = Cardinality(keep)
        /\ \A n \in 1..Len(m) :
             \E k \in keep : m[n] = src[k] /\ Cardinality({ k2 \in keep : k2 < k }) = n - 1

\* C11: the candidates of a request are the registry's names, or one
\* handler's documentation tokens, filtered in declaration order; request N
\* returns the N-th of them (from 0) and None from the match count on; and a
\* repeated request on the same line with the same index returns the same.
C11_IndexedRequestProtocol ==
    /\ [](comp_state >= 0 =>
            /\ \/ comp_matches = <<>>
               \/ IsOrderedFilter(comp_matches, RegistryNames(COMMANDS),
                                  readline_text(buffer))
               \/ \E i \in 1..Len(COMMANDS) :
                    IsOrderedFilter(comp_matches,
                                    IF COMMANDS[i].hasdoc THEN split(COMMANDS[i].doc)
                                    ELSE <<>>,
                                    readline_text(buffer))
            /\ comp_state < Len(comp_matches)
                 => comp_result = [none |-> FALSE, value |-> comp_matches[comp_state + 1]]
            /\ comp_state >= Len(comp_matches)
                 => comp_result = [none |-> TRUE, value |-> <<>>])
    /\ [][(comp_state >= 0 /\ comp_state' >= 0 /\ buffer' = buffer)
            => /\ comp_matches' = comp_matches
               /\ comp_state' = comp_state => comp_result' = comp_result]_vars

\* C11 witness: three candidates, the last of them asked for
C11_Witness ==
    /\ comp_state = 2
    /\ Len(comp_matches) = 3
    /\ ~comp_result.none
    /\ comp_result.value = COMMANDS[3].name

\* C11 witness, past the end: fewer candidates than the index asked for
C11_WitnessPastEnd ==
    /\ comp_state = 2
    /\ Len(comp_matches) = 2
    /\ comp_result.none

----------------------------------------------------------------------------
\* Properties of wait_for_data

\* C14: wait_for_data returns True at the first poll that has a byte to see
\* and polls no further; it returns False only once max_wait has elapsed
\* with no poll having seen a byte; its clock never passes max_wait plus one
\* poll interval; and none of its steps changes the input buffer.
C14_WaitForDataDetectsOnly ==
    /\ [](/\ w_result = "True"
               => (w_pc = "done" /\ inbuf # <<>> /\ w_polls >= 1
                   /\ w_first_avail = w_polls)
          /\ w_result = "False"
               => (w_pc = "done" /\ w_elapsed >= max_wait /\ w_first_avail = 0)
          /\ w_first_avail # 0 => w_result = "True"
          /\ w_pc = "done" => w_result \in {"True", "False"}
          /\ w_elapsed <= max_wait + 1)
    /\ [][(w_pc' # w_pc \/ w_elapsed' # w_elapsed \/ w_polls' # w_polls)
            => inbuf' = inbuf]_vars

\* C14 witness: the first poll saw nothing, a byte arrived during the sleep,
\* the second poll returned True
C14_Witness ==
    /\ w_pc = "done"
    /\ w_result = "True"
    /\ w_polls = 2
    /\ w_elapsed = 1
    /\ Len(inbuf) = 1

\* C14 witness, time out: max_wait elapsed, and a byte that arrived during
\* the last sleep is still in the buffer
C14_WitnessTimeout ==
    /\ w_pc = "done"
    /\ w_result = "False"
    /\ max_wait = 2
    /\ w_polls = 2
    /\ inbuf # <<>>

====
